---- MODULE Spec2Model ----
(***************************************************************************)
(* A model of src/git_server.py: the repository-name validator, the        *)
(* repository locator, the resource lister/reader and the tool dispatcher  *)
(* of the git MCP server.                                                  *)
(*                                                                         *)
(* A name is a sequence of one-character strings.  A path is a sequence of *)
(* names (its segments).  The external git engine and the filesystem calls *)
(* that may fail are inputs of the actions: each engine call either        *)
(* succeeds or raises.                                                     *)
(***************************************************************************)
EXTENDS Integers, Sequences, FiniteSets, TLC

VARIABLES
    input,      \* validator harness: the string handed to _validate_repo_name
    outcome,    \* validator harness: "pending" or what _validate_repo_name did
    fs,         \* the entries of repositories_dir: name -> entry
    req,        \* the request being answered (handler, tool, arguments)
    resp,       \* what the caller of that request gets back
    log,        \* the log records that request emitted
    engine,     \* the git engine calls that request made, in order
    touched,    \* the paths that request stat'ed, opened or wrote
    created     \* the paths the server has created since it started

vars == <<input, outcome, fs, req, resp, log, engine, touched, created>>

----------------------------------------------------------------------------
(* Characters and strings                                                  *)

LowerLetters ==
    <<"a","b","c","d","e","f","g","h","i","j","k","l","m",
      "n","o","p","q","r","s","t","u","v","w","x","y","z">>

UpperLetters ==
    <<"A","B","C","D","E","F","G","H","I","J","K","L","M",
      "N","O","P","Q","R","S","T","U","V","W","X","Y","Z">>

Digits == {"0","1","2","3","4","5","6","7","8","9"}

Range(f) == {f[i] : i \in DOMAIN f}

Alnum == Range(LowerLetters) \cup Range(UpperLetters) \cup Digits

\* the class [a-zA-Z0-9] of the pattern
IsAlnum(c) == c \in Alnum

\* the class [a-zA-Z0-9-_.] of the pattern
IsNameChar(c) == IsAlnum(c) \/ c \in {"-", "_", "."}

\* str.lower(), one character
LowerChar(c) ==
    IF \E i \in DOMAIN UpperLetters : UpperLetters[i] = c
    THEN LowerLetters[CHOOSE i \in DOMAIN UpperLetters : UpperLetters[i] = c]
    ELSE c

\* str.lower()
Lower(s) == [i \in DOMAIN s |-> LowerChar(s[i])]

\* pattern in s
Contains(s, pat) ==
    \E i \in 1..(Len(s) - Len(pat) + 1) : SubSeq(s, i, i + Len(pat) - 1) = pat

\* c in s
HasChar(s, c) == \E i \in DOMAIN s : s[i] = c

----------------------------------------------------------------------------
(* GitServer._validate_repo_name                                           *)

MaxNameLength == 255

\* re.match(r'^[a-zA-Z0-9][a-zA-Z0-9-_.]*$', s): without re.MULTILINE, $
\* matches at the end of the string and also just before a newline that is
\* the string's last character.
ReMatch(s) ==
    /\ Len(s) >= 1
    /\ IsAlnum(s[1])
    /\ \E k \in 1..Len(s) :
          /\ \A i \in 2..k : IsNameChar(s[i])
          /\ \/ k = Len(s)
             \/ k = Len(s) - 1 /\ s[Len(s)] = "\n"

\* the list without its last entry
forbidden_patterns_short ==
    { <<".", ".">>, <<"/", "/">>, <<"\\", "\\">>, <<".", "g", "i", "t">> }

forbidden_patterns ==
    { <<".", ".">>, <<"/", "/">>, <<"\\", "\\">>,
      <<".", "g", "i", "t">>, <<".", "l", "o", "c", "k">> }

reserved_names ==
    { <<"g","i","t">>, <<"t","e","m","p">>, <<"t","m","p">>, <<"a","u","x">>,
      <<"c","o","n">>, <<"p","r","n">>, <<"n","u","l">>,
      <<"c","o","m","1">>, <<"c","o","m","2">>, <<"c","o","m","3">>,
      <<"c","o","m","4">>,
      <<"l","p","t","1">>, <<"l","p","t","2">>, <<"l","p","t","3">> }

\* the '/'-separated segments of s from position i on; empty segments and
\* "." segments are dropped, as pathlib does
RECURSIVE SplitFrom(_, _)
SplitFrom(s, i) ==
    LET seps == {k \in i..Len(s) : s[k] = "/"}
        stop == IF seps = {} THEN Len(s) + 1
                ELSE CHOOSE k \in seps : \A j \in seps : k <= j
        seg  == SubSeq(s, i, stop - 1)
        keep == IF seg = <<>> \/ seg = <<".">> THEN <<>> ELSE <<seg>>
    IN  IF stop > Len(s) THEN keep ELSE keep \o SplitFrom(s, stop + 1)

IsAbsolute(s) == Len(s) >= 1 /\ s[1] = "/"

\* Path(s).parts (POSIX flavour): the root "/" first when s is absolute
PathParts(s) ==
    (IF IsAbsolute(s) THEN << <<"/">> >> ELSE <<>>) \o SplitFrom(s, 1)

\* >= where the code has >
TooLong_off_by_one(s) == Len(s) >= MaxNameLength

\* len(repo_name) > 255
TooLong(s) == Len(s) > MaxNameLength

\* _validate_repo_name: "Ok" when it returns, else the kind of the ValueError
\* it raises, by the message: empty / too long / must start with alphanumeric
\* are InvalidName, "contains forbidden pattern" is ForbiddenPattern,
\* "is reserved" is ReservedName, "path traversal characters" is
\* PathTraversal.
ValidateRepoName(s) ==
    IF s = <<>> THEN "InvalidName"
    ELSE IF TooLong(s) THEN "InvalidName"
    ELSE IF ~ReMatch(s) THEN "InvalidName"
    ELSE IF \E p \in forbidden_patterns : Contains(s, p) THEN "ForbiddenPattern"
    ELSE IF Lower(s) \in reserved_names THEN "ReservedName"
    ELSE IF \/ \E i \in DOMAIN PathParts(s) : PathParts(s)[i] = <<".", ".">>
            \/ HasChar(s, "/")
            \/ HasChar(s, "\\")
         THEN "PathTraversal"
    ELSE "Ok"

----------------------------------------------------------------------------
(* Paths and the repositories directory                                    *)

\* the default of --repositories-dir, "./repositories"
DefaultRepositoriesDir ==
    <<".", "/", "r","e","p","o","s","i","t","o","r","i","e","s">>

\* self.repositories_dir = Path(repositories_dir)
RepositoriesDir == PathParts(DefaultRepositoriesDir)

\* base / name: an absolute name replaces base
JoinPath(base, s) == IF IsAbsolute(s) THEN PathParts(s) ELSE base \o PathParts(s)

\* p names an entry of repositories_dir itself
IsChildPath(p) ==
    /\ Len(p) = Len(RepositoriesDir) + 1
    /\ SubSeq(p, 1, Len(RepositoriesDir)) = RepositoriesDir
    /\ p[Len(p)] # <<".", ".">>

ChildName(p) == p[Len(p)]

\* An entry of repositories_dir.  kind is "file" or "dir"; git says whether
\* <entry>/.git exists; readme, staged, commits and origin are the state the
\* git engine keeps in it (README.md written, index holding staged changes,
\* number of commits on HEAD, a remote named "origin").
PlainDir ==
    [kind |-> "dir", git |-> FALSE, readme |-> FALSE, staged |-> FALSE,
     commits |-> 0, origin |-> FALSE]

PlainFile == [PlainDir EXCEPT !.kind = "file"]

ExistingRepo == [PlainDir EXCEPT !.git = TRUE, !.readme = TRUE, !.commits = 1]

\* Path.exists(): repositories_dir was made by __init__, so it and its parent
\* exist; below it only the entries of f do
PathExists(f, p) ==
    \/ p = RepositoriesDir
    \/ p = RepositoriesDir \o << <<".", ".">> >>
    \/ IsChildPath(p) /\ ChildName(p) \in DOMAIN f

\* Path.is_dir()
PathIsDir(f, p) ==
    \/ p = RepositoriesDir
    \/ p = RepositoriesDir \o << <<".", ".">> >>
    \/ IsChildPath(p) /\ ChildName(p) \in DOMAIN f /\ f[ChildName(p)].kind = "dir"

\* (p / ".git").exists()
GitMarkerExists(f, p) ==
    IsChildPath(p) /\ ChildName(p) \in DOMAIN f /\ f[ChildName(p)].git

----------------------------------------------------------------------------
(* GitServer._check_repository_exists                                      *)

\* the path alone is tested, not its .git marker
CheckRepositoryExists_path_only(f, s) ==
    LET repo_path == JoinPath(RepositoriesDir, s)
    IN  IF ValidateRepoName(s) # "Ok"
        THEN [result |-> ValidateRepoName(s), touched |-> {}]
        ELSE IF ~PathExists(f, repo_path)
             THEN [result |-> "RepositoryNotFound", touched |-> {repo_path}]
        ELSE [result |-> "Ok", touched |-> {repo_path}]

\* the name is not validated before the path is built from it
CheckRepositoryExists_unvalidated(f, s) ==
    LET repo_path == JoinPath(RepositoriesDir, s)
    IN  IF ~PathExists(f, repo_path) \/ ~GitMarkerExists(f, repo_path)
        THEN [result |-> "RepositoryNotFound", touched |-> {repo_path}]
        ELSE [result |-> "Ok", touched |-> {repo_path}]

\* result: "Ok" when it returns repo_path, else the kind of the ValueError
\* raised; touched: the paths it handed to the filesystem
CheckRepositoryExists(f, s) ==
    LET repo_path == JoinPath(RepositoriesDir, s)
    IN  IF ValidateRepoName(s) # "Ok"
        THEN [result |-> ValidateRepoName(s), touched |-> {}]
        ELSE IF ~PathExists(f, repo_path) \/ ~GitMarkerExists(f, repo_path)
             THEN [result |-> "RepositoryNotFound", touched |-> {repo_path}]
        ELSE [result |-> "Ok", touched |-> {repo_path}]

----------------------------------------------------------------------------
(* Requests, responses and the calls a handler makes                       *)

MaxCommits == 2

ToolNames ==
    {"create_repository", "git_add", "git_commit", "git_pull", "git_push",
     "git_diff"}

\* An argument bag: isdict says whether arguments is a dict, keys are the
\* keys it holds, name is the value under "name" and under "repo_name".
\* The other keys hold fixed values: init_commit False, remote_url a
\* non-empty URL, files ["README.md"], message a text, remote "upstream",
\* commit2 a revision.
Has(a, k) == a.isdict /\ k \in a.keys

\* what a handler did: the new entries, the response, the log records, the
\* calls made in order, the name-derived paths used, the paths created
Outcome(f, r, l, calls, t, c) ==
    [fs |-> f, resp |-> r, log |-> l, calls |-> calls, touched |-> t,
     created |-> c]

Success ==
    [status |-> "success", exc |-> "", prefix |-> "", kind |-> "",
     resources |-> <<>>]

Raised(exc, prefix, kind) ==
    [status |-> "failure", exc |-> exc, prefix |-> prefix, kind |-> kind,
     resources |-> <<>>]

\* the except clauses of call_tool: log at error level, raise RuntimeError
ToolFailure(kind) ==
    IF kind = "GitCommandError"
    THEN [resp |-> Raised("RuntimeError", "Git operation failed", kind),
          log |-> << [level |-> "error", text |-> "Git operation failed"] >>]
    ELSE [resp |-> Raised("RuntimeError", "Operation failed", kind),
          log |-> << [level |-> "error", text |-> "Operation failed"] >>]

\* the calls that leave the process for the git engine
GitCalls ==
    {"Repo.init", "Repo", "index.add", "index.commit", "create_remote",
     "remote", "pull", "push", "diff", "status"}

\* the effect of one successful call on the entry named n
ApplyCall(f, n, call) ==
    CASE call = "mkdir" ->
            [m \in DOMAIN f \cup {n} |-> IF m = n THEN PlainDir ELSE f[m]]
      [] call = "Repo.init"     -> [f EXCEPT ![n].git = TRUE]
      [] call = "write_text"    -> [f EXCEPT ![n].readme = TRUE]
      [] call = "index.add"     -> [f EXCEPT ![n].staged = TRUE]
      [] call = "index.commit"  ->
            [f EXCEPT ![n].staged = FALSE, ![n].commits = @ + 1]
      [] call = "create_remote" -> [f EXCEPT ![n].origin = TRUE]
      [] call = "pull"          -> [f EXCEPT ![n].commits = @ + 1]
      [] OTHER -> f

RECURSIVE ApplyCalls(_, _, _)
ApplyCalls(f, n, calls) ==
    IF calls = <<>> THEN f
    ELSE ApplyCalls(ApplyCall(f, n, Head(calls)), n, Tail(calls))

\* Run the calls in order up to the first that raises.  must.at names the
\* call that raises in the state the entry is in (must.exc), fail.at the
\* call the environment makes raise (fail.exc); "none" when none does.
\* done: the calls that returned; calls: those made; exc: "" or what was
\* raised.
RunCalls(f, n, steps, fail, must) ==
    LET hit  == {i \in DOMAIN steps : steps[i] \in {fail.at, must.at}}
        stop == IF hit = {} THEN Len(steps) + 1
                ELSE CHOOSE i \in hit : \A j \in hit : i <= j
        done == SubSeq(steps, 1, stop - 1)
    IN  [fs    |-> ApplyCalls(f, n, done),
         done  |-> done,
         calls |-> SubSeq(steps, 1, IF hit = {} THEN Len(steps) ELSE stop),
         exc   |-> IF hit = {} THEN ""
                   ELSE IF steps[stop] = must.at THEN must.exc
                   ELSE fail.exc]

NoFail == [at |-> "none", exc |-> ""]

----------------------------------------------------------------------------
(* call_tool: the create_repository branch                                 *)

\* the calls create_repository makes once the name is accepted and free
CreateCalls(a) ==
    <<"mkdir", "Repo.init">>
    \o (IF ~Has(a, "init_commit")
        THEN <<"write_text", "index.add", "index.commit">> ELSE <<>>)
    \o (IF Has(a, "remote_url") THEN <<"create_remote">> ELSE <<>>)

\* the .git marker is tested where the code tests the path
TargetTaken_marker(f, repo_path) == GitMarkerExists(f, repo_path)

\* repo_path.exists()
TargetTaken(f, repo_path) == PathExists(f, repo_path)

CreateRepository(f, c, a, fail) ==
    IF ~Has(a, "name")
    THEN LET x == ToolFailure("InvalidArguments")
         IN  Outcome(f, x.resp, x.log, <<>>, {}, c)
    ELSE
    LET repo_name == a.name
        v         == ValidateRepoName(repo_name)
        repo_path == JoinPath(RepositoriesDir, repo_name)
    IN  IF v # "Ok"
        THEN LET x == ToolFailure(v)
             IN  Outcome(f, x.resp, x.log, <<>>, {}, c)
        ELSE IF TargetTaken(f, repo_path)
        THEN LET x == ToolFailure("AlreadyExists")
             IN  Outcome(f, x.resp, x.log, <<>>, {repo_path}, c)
        ELSE
        LET run  == RunCalls(f, repo_name, CreateCalls(a), fail, NoFail)
            made == IF run.done # <<>> THEN {repo_path} ELSE {}
        IN  IF run.exc = ""
            THEN Outcome(run.fs, Success, <<>>, run.calls, {repo_path},
                         c \cup made)
            ELSE LET x == ToolFailure(run.exc)
                 IN  Outcome(run.fs, x.resp, x.log, run.calls, {repo_path},
                             c \cup made)

----------------------------------------------------------------------------
(* call_tool: every other tool name                                        *)

\* What a tool does once the repository is resolved, in the entry e: the
\* calls it makes, the one among them that raises in e (must) and, when
\* they all return, the exception the tool raises itself (then, "" if
\* none).  index.add raises FileNotFoundError for a file that is not in the
\* working tree; repo.remote(name) raises ValueError for a remote that is
\* not configured; git diff HEAD raises GitCommandError in a repository
\* without commits.
ToolPlan(tool, a, e) ==
    CASE tool = "git_add" ->
            IF Has(a, "files")
            THEN [calls |-> <<"Repo", "index.add">>, then |-> "",
                  must |-> IF e.readme THEN NoFail
                           ELSE [at |-> "index.add", exc |-> "FileNotFoundError"]]
            ELSE [calls |-> <<"Repo">>, then |-> "KeyError", must |-> NoFail]
      [] tool = "git_commit" ->
            IF Has(a, "message")
            THEN [calls |-> <<"Repo", "index.commit">>, then |-> "",
                  must |-> NoFail]
            ELSE [calls |-> <<"Repo">>, then |-> "KeyError", must |-> NoFail]
      [] tool = "git_pull" ->
            [calls |-> <<"Repo", "remote", "pull">>, then |-> "",
             must |-> IF ~Has(a, "remote") /\ e.origin THEN NoFail
                      ELSE [at |-> "remote", exc |-> "ValueError"]]
      [] tool = "git_push" ->
            [calls |-> <<"Repo", "remote", "push">>, then |-> "",
             must |-> IF ~Has(a, "remote") /\ e.origin THEN NoFail
                      ELSE [at |-> "remote", exc |-> "ValueError"]]
      [] tool = "git_diff" ->
            [calls |-> <<"Repo", "diff">>, then |-> "",
             must |-> IF e.commits > 0 THEN NoFail
                      ELSE [at |-> "diff", exc |-> "GitCommandError"]]
      [] OTHER -> [calls |-> <<"Repo">>, then |-> "UnknownTool", must |-> NoFail]

\* news: whether a pull that succeeds merges a new commit
GitTool(f, c, tool, a, fail, news) ==
    IF ~a.isdict
    THEN LET x == ToolFailure("TypeError")
         IN  Outcome(f, x.resp, x.log, <<>>, {}, c)
    ELSE IF "repo_name" \notin a.keys
    THEN LET x == ToolFailure("KeyError")
         IN  Outcome(f, x.resp, x.log, <<>>, {}, c)
    ELSE
    LET repo_name == a.name
        chk       == CheckRepositoryExists(f, repo_name)
    IN  IF chk.result # "Ok"
        THEN LET x == ToolFailure(chk.result)
             IN  Outcome(f, x.resp, x.log, <<>>, chk.touched, c)
        ELSE
        LET plan == ToolPlan(tool, a, f[repo_name])
            run  == RunCalls(f, repo_name, plan.calls, fail, plan.must)
            kind == IF run.exc # "" THEN run.exc ELSE plan.then
            g    == IF kind = "" /\ tool = "git_pull" /\ ~news
                    THEN f ELSE run.fs
        IN  IF kind = ""
            THEN Outcome(g, Success, <<>>, run.calls, chk.touched, c)
            ELSE LET x == ToolFailure(kind)
                 IN  Outcome(g, x.resp, x.log, run.calls, chk.touched, c)

\* call_tool
CallTool(f, c, tool, a, fail, news) ==
    IF tool = "create_repository"
    THEN CreateRepository(f, c, a, fail)
    ELSE GitTool(f, c, tool, a, fail, news)

----------------------------------------------------------------------------
(* list_resources and read_resource                                        *)

GitScheme == <<"g", "i", "t", ":", "/", "/">>

\* f"git://{repo_name}"
Uri(n) == GitScheme \o n

\* the scan ends at the first entry whose name fails validation
RECURSIVE Scan_break(_, _)
Scan_break(f, order) ==
    IF order = <<>> THEN [resources |-> <<>>, log |-> <<>>]
    ELSE
    LET n    == Head(order)
        p    == RepositoriesDir \o <<n>>
        rest == Scan_break(f, Tail(order))
    IN  IF PathIsDir(f, p) /\ GitMarkerExists(f, p)
        THEN IF ValidateRepoName(n) = "Ok"
             THEN [resources |-> <<Uri(n)>> \o rest.resources,
                   log |-> rest.log]
             ELSE [resources |-> <<>>,
                   log |-> << [level |-> "warning",
                               text |-> "Skipping invalid repository"] >>]
        ELSE rest

\* the loop of list_resources over the entries of repositories_dir, in the
\* order glob("*") yields them
RECURSIVE Scan(_, _)
Scan(f, order) ==
    IF order = <<>> THEN [resources |-> <<>>, log |-> <<>>]
    ELSE
    LET n    == Head(order)
        p    == RepositoriesDir \o <<n>>
        rest == Scan(f, Tail(order))
    IN  IF PathIsDir(f, p) /\ GitMarkerExists(f, p)
        THEN IF ValidateRepoName(n) = "Ok"
             THEN [resources |-> <<Uri(n)>> \o rest.resources,
                   log |-> rest.log]
             ELSE [resources |-> rest.resources,
                   log |-> << [level |-> "warning",
                               text |-> "Skipping invalid repository"] >>
                           \o rest.log]
        ELSE rest

ListResources(f, c, order) ==
    LET scan == Scan(f, order)
    IN  Outcome(f, [Success EXCEPT !.resources = scan.resources], scan.log,
                <<>>, {}, c)

StartsWith(s, pre) == Len(s) >= Len(pre) /\ SubSeq(s, 1, Len(pre)) = pre

SchemeSep == <<":", "/", "/">>

\* the position of the first "://" in s at or after i, 0 when there is none
FirstSep(s, i) ==
    LET at == {k \in i..(Len(s) - 2) : SubSeq(s, k, k + 2) = SchemeSep}
    IN  IF at = {} THEN 0 ELSE CHOOSE k \in at : \A j \in at : k <= j

\* str(uri).split("://")[1], for a uri that holds "://"
SplitScheme(u) ==
    LET i == FirstSep(u, 1)
        j == FirstSep(u, i + 3)
    IN  IF j = 0 THEN SubSeq(u, i + 3, Len(u)) ELSE SubSeq(u, i + 3, j - 1)

\* read_resource: nothing is logged; ValueError and whatever the engine
\* raises other than GitCommandError leave the handler as they are.
\* Reading the status (repo.head.commit) raises ValueError in a repository
\* without commits.
ReadResource(f, c, uri, fail) ==
    IF ~StartsWith(uri, GitScheme)
    THEN Outcome(f, Raised("ValueError", "", "UnknownResource"), <<>>, <<>>,
                 {}, c)
    ELSE
    LET repo_name == SplitScheme(uri)
        chk       == CheckRepositoryExists(f, repo_name)
    IN  IF chk.result # "Ok"
        THEN Outcome(f, Raised("ValueError", "", chk.result), <<>>, <<>>,
                     chk.touched, c)
        ELSE
        LET must == IF f[repo_name].commits > 0 THEN NoFail
                    ELSE [at |-> "status", exc |-> "ValueError"]
            run  == RunCalls(f, repo_name, <<"Repo", "status">>, fail, must)
            kind == run.exc
        IN  IF kind = ""
            THEN Outcome(f, Success, <<>>, run.calls, chk.touched, c)
            ELSE IF kind = "GitCommandError"
            THEN Outcome(f, Raised("RuntimeError", "Git error", kind), <<>>,
                         run.calls, chk.touched, c)
            ELSE Outcome(f, Raised(kind, "", kind), <<>>, run.calls,
                         chk.touched, c)

----------------------------------------------------------------------------
(* The requests a caller may send and what the environment may do          *)

Demo     == <<"d", "e", "m", "o">>
Tmp      == <<"t", "m", "p">>
DotDot   == <<".", ".">>
Nested   == <<"a", "/", "b">>
Empty    == <<>>
DotGit   == <<"x", ".", "g", "i", "t">>
Absolute == <<"/", "e", "t", "c">>

\* the names callers supply: valid, reserved, parent directory, two levels,
\* empty, holding a forbidden pattern, absolute
RequestNames == {Demo, Tmp, DotDot, Nested, Empty, DotGit, Absolute}

NotDict == [isdict |-> FALSE, keys |-> {}, name |-> <<>>]

\* the argument bags over the keys ks: arguments that is no dict, and every
\* subset of ks with every name
BagsOver(ks) ==
    {NotDict} \cup
    { [isdict |-> TRUE, keys |-> K,
       name |-> IF K \cap {"name", "repo_name"} = {} THEN <<>> ELSE n] :
      K \in SUBSET ks, n \in RequestNames }

\* a call that raises, and what it raises
Fails(calls) ==
    {NoFail} \cup
    { [at |-> k, exc |-> x] : k \in calls, x \in {"GitCommandError", "Exception"} }

Perms(S) ==
    { o \in [1..Cardinality(S) -> S] :
        \A i, j \in 1..Cardinality(S) : o[i] = o[j] => i = j }

FileUri == <<"f", "i", "l", "e", ":", "/", "/">> \o Demo

ReadUris == {Uri(n) : n \in RequestNames} \cup {FileUri}

NoRequest ==
    [handler |-> "none", tool |-> "", isdict |-> FALSE, keys |-> {},
     name |-> <<>>, uri |-> <<>>, order |-> <<>>]

ToolRequest(tool, a) ==
    [NoRequest EXCEPT !.handler = "call_tool", !.tool = tool,
                      !.isdict = a.isdict, !.keys = a.keys, !.name = a.name]

\* the entries repositories_dir may hold when the server starts
InitialFs ==
    UNION { [D -> {PlainFile, PlainDir, ExistingRepo}] :
            D \in SUBSET {Demo, Tmp, DotGit} }

----------------------------------------------------------------------------
(* The server                                                              *)

\* no request is being answered
Waiting ==
    /\ req = NoRequest
    /\ resp = [Success EXCEPT !.status = "none"]
    /\ log = <<>>
    /\ engine = <<>>
    /\ touched = {}

Init ==
    /\ input = <<>>
    /\ outcome = "pending"
    /\ fs \in InitialFs
    /\ created = {}
    /\ Waiting

\* the handler of request r ran to the end, with out (the server takes a
\* request off the transport only when it is answering none)
Answer(r, out) ==
    /\ \A n \in DOMAIN out.fs : out.fs[n].commits <= MaxCommits
    /\ fs' = out.fs
    /\ req' = r
    /\ resp' = out.resp
    /\ log' = out.log
    /\ engine' = SelectSeq(out.calls, LAMBDA k : k \in GitCalls)
    /\ touched' = out.touched
    /\ created' = out.created
    /\ UNCHANGED <<input, outcome>>

\* the calls the request makes when none raises: those that may raise
CallsOf(tool, a) ==
    Range(CallTool(fs, created, tool, a, NoFail, FALSE).calls)

\* call_tool(tool, a) for the bags a over repo_name and the keys extra
ToolCall(tool, extra) ==
    \E a \in BagsOver({"repo_name"} \cup extra) :
      \E fail \in Fails(CallsOf(tool, a)),
         news \in IF tool = "git_pull" THEN BOOLEAN ELSE {FALSE} :
        \E out \in {CallTool(fs, created, tool, a, fail, news)} :
          Answer(ToolRequest(tool, a), out)

CreateRepositoryCall ==
    /\ req = NoRequest
    /\ \E a \in BagsOver({"name", "init_commit", "remote_url"}) :
         \E fail \in Fails(CallsOf("create_repository", a)) :
           \E out \in {CallTool(fs, created, "create_repository", a, fail,
                                FALSE)} :
             Answer(ToolRequest("create_repository", a), out)

GitAddCall ==
    /\ req = NoRequest
    /\ ToolCall("git_add", {"files"})

GitCommitCall ==
    /\ req = NoRequest
    /\ ToolCall("git_commit", {"message"})

GitPullCall ==
    /\ req = NoRequest
    /\ ToolCall("git_pull", {"remote"})

GitPushCall ==
    /\ req = NoRequest
    /\ ToolCall("git_push", {"remote"})

GitDiffCall ==
    /\ req = NoRequest
    /\ ToolCall("git_diff", {"commit2"})

\* a tool name outside the fixed set
UnknownToolCall ==
    /\ req = NoRequest
    /\ ToolCall("git_status", {})

ListResourcesCall ==
    /\ req = NoRequest
    /\ \E order \in Perms(DOMAIN fs) :
         \E out \in {ListResources(fs, created, order)} :
           Answer([NoRequest EXCEPT !.handler = "list_resources",
                                    !.order = order], out)

ReadResourceCall ==
    /\ req = NoRequest
    /\ \E uri \in ReadUris :
         \E fail \in Fails(Range(ReadResource(fs, created, uri, NoFail).calls)) :
           \E out \in {ReadResource(fs, created, uri, fail)} :
             Answer([NoRequest EXCEPT !.handler = "read_resource",
                                      !.uri = uri], out)

\* the transport hands the response (or the failure) to the caller; what
\* the handler held is dropped and the server waits for the next request
Deliver ==
    /\ req # NoRequest
    /\ req' = NoRequest
    /\ resp' = [Success EXCEPT !.status = "none"]
    /\ log' = <<>>
    /\ engine' = <<>>
    /\ touched' = {}
    /\ UNCHANGED <<input, outcome, fs, created>>

Next ==
    \/ CreateRepositoryCall
    \/ GitAddCall
    \/ GitCommitCall
    \/ GitPullCall
    \/ GitPushCall
    \/ GitDiffCall
    \/ UnknownToolCall
    \/ ListResourcesCall
    \/ ReadResourceCall
    \/ Deliver

Spec == Init /\ [][Next]_vars

----------------------------------------------------------------------------
(* The validator on its own                                                *)

MaxFragments == 3

Fragments ==
    { <<"a">>, <<"Z">>, <<"9">>, <<"-">>, <<"_">>, <<".">>, <<"/">>,
      <<"\\">>, <<"\n">>, <<" ">>, <<"g","i","t">>, <<"T","m","P">>,
      <<"c","o","m","1">>, <<".","g","i","t">>, <<".","l","o","c","k">> }

RECURSIVE Concat(_)
Concat(ss) == IF ss = <<>> THEN <<>> ELSE Head(ss) \o Concat(Tail(ss))

ShortInputs ==
    { Concat(ss) : ss \in UNION { [1..n -> Fragments] : n \in 0..MaxFragments } }

\* h, then as many "a" as it takes, then t: len characters in all
Padded(h, t, len) == h \o [i \in 1..(len - Len(h) - Len(t)) |-> "a"] \o t

LongInputs ==
    { Padded(h, t, len) :
        h \in Fragments \cup {<<>>}, t \in Fragments \cup {<<>>},
        len \in (MaxNameLength - 1)..(MaxNameLength + 1) }

InitValidate ==
    /\ input \in ShortInputs \cup LongInputs
    /\ outcome = "pending"
    /\ fs = <<>>
    /\ created = {}
    /\ Waiting

ValidateCall ==
    /\ outcome = "pending"
    /\ outcome' = ValidateRepoName(input)
    /\ UNCHANGED <<input, fs, req, resp, log, engine, touched, created>>

NextValidate == ValidateCall

SpecValidate == InitValidate /\ [][NextValidate]_vars

----------------------------------------------------------------------------
(* What the claims speak of                                                *)

\* a create_repository request is being answered (primed: has just been)
IsCreate(r) == r.handler = "call_tool" /\ r.tool = "create_repository"

\* the request carries a name under the key the tool reads
NamedUnder(r, k) == r.isdict /\ k \in r.keys

\* base_dir/n holds a repository: it exists and has the .git marker
RepositoryAt(f, n) == n \in DOMAIN f /\ f[n].git

\* an error-level record among the log records of the request
ErrorLogged == \E i \in DOMAIN log : log[i].level = "error"

\* the accepted pattern ^[A-Za-z0-9][A-Za-z0-9\-_.]*$ as the spec reads it:
\* the whole string, nothing after it
MatchesPattern(s) ==
    /\ Len(s) >= 1
    /\ IsAlnum(s[1])
    /\ \A i \in 2..Len(s) : IsNameChar(s[i])

HasForbidden(s) ==
    \/ Contains(s, <<".", ".">>)
    \/ Contains(s, <<"/", "/">>)
    \/ Contains(s, <<"\\", "\\">>)
    \/ Contains(s, <<".", "g", "i", "t">>)
    \/ Contains(s, <<".", "l", "o", "c", "k">>)

IsReserved(s) == Lower(s) \in reserved_names

\* p is an entry of base_dir itself: one segment below it, that segment a
\* plain name
ImmediateChild(p) ==
    /\ Len(p) = Len(RepositoriesDir) + 1
    /\ \A i \in 1..Len(RepositoriesDir) : p[i] = RepositoriesDir[i]
    /\ p[Len(p)] \notin {<<>>, <<".">>, <<".", ".">>}
    /\ ~HasChar(p[Len(p)], "/")

\* the entries of base_dir that are repositories with a name that validates
ListedNames ==
    {n \in DOMAIN fs :
        fs[n].kind = "dir" /\ fs[n].git /\ ValidateRepoName(n) = "Ok"}

\* the entries of base_dir that are repositories with a name that does not
SkippedNames ==
    {n \in DOMAIN fs :
        fs[n].kind = "dir" /\ fs[n].git /\ ValidateRepoName(n) # "Ok"}

----------------------------------------------------------------------------
(* The claims                                                              *)

\* C1: a create_repository call that fails leaves no directory at the target
\* path that was not there before the call: every entry of base_dir after
\* the failure was an entry before it.
C1_FailedCreateLeavesNoDirectory ==
    [][ (IsCreate(req') /\ resp'.status = "failure")
        => DOMAIN fs' \subseteq DOMAIN fs ]_vars

\* C2: git_add, git_commit, git_pull, git_push and git_diff with a valid
\* repo_name that names no repository fail with RepositoryNotFound, whatever
\* else the bag holds or lacks, before any engine call and with the entries
\* of base_dir as they were.
C2_MissingRepositoryIsNotFound ==
    [][ ( /\ req'.handler = "call_tool"
          /\ req'.tool \in ToolNames \ {"create_repository"}
          /\ NamedUnder(req', "repo_name")
          /\ ValidateRepoName(req'.name) = "Ok"
          /\ ~RepositoryAt(fs, req'.name) )
        => ( /\ resp'.status = "failure"
             /\ resp'.kind = "RepositoryNotFound"
             /\ engine' = <<>>
             /\ fs' = fs ) ]_vars

\* C2, its case: git_add without the required files, on a plain directory
\* that has no .git marker, answered RepositoryNotFound
C2_Witness ==
    /\ req.handler = "call_tool" /\ req.tool = "git_add"
    /\ NamedUnder(req, "repo_name") /\ "files" \notin req.keys
    /\ req.name = Demo /\ Demo \in DOMAIN fs /\ ~fs[Demo].git
    /\ resp.kind = "RepositoryNotFound"

\* C3 as stated: create_repository on a target path that exists fails with
\* AlreadyExists and changes nothing under base_dir.
C3_ExistingTargetIsAlreadyExists ==
    [][ ( /\ IsCreate(req')
          /\ NamedUnder(req', "name")
          /\ PathExists(fs, JoinPath(RepositoriesDir, req'.name)) )
        => (resp'.kind = "AlreadyExists" /\ fs' = fs) ]_vars

\* C3 as amended: create_repository with a name that passes validation and
\* a target path that exists fails with AlreadyExists; with a name that
\* fails validation it fails with the validator's error, whether or not the
\* target exists; either way nothing under base_dir changes.  No entry
\* changes, no engine call is made and no path is created unless the name
\* validated and the target was absent.
C3_ValidExistingTargetIsAlreadyExists ==
    [][ IsCreate(req')
        => ( /\ ( /\ NamedUnder(req', "name")
                  /\ ValidateRepoName(req'.name) = "Ok"
                  /\ req'.name \in DOMAIN fs )
                => (resp'.kind = "AlreadyExists" /\ fs' = fs)
             /\ ( /\ NamedUnder(req', "name")
                  /\ ValidateRepoName(req'.name) # "Ok" )
                => (resp'.kind = ValidateRepoName(req'.name) /\ fs' = fs)
             /\ (fs' # fs \/ created' # created \/ engine' # <<>>)
                => ( /\ NamedUnder(req', "name")
                     /\ ValidateRepoName(req'.name) = "Ok"
                     /\ req'.name \notin DOMAIN fs ) ) ]_vars

\* C3, its case: the target is a plain directory, no repository, and the
\* call was answered AlreadyExists
C3_Witness ==
    /\ IsCreate(req) /\ NamedUnder(req, "name")
    /\ req.name \in DOMAIN fs /\ fs[req.name] = PlainDir
    /\ resp.kind = "AlreadyExists"

\* C4: a string the validator accepts satisfies every RepositoryName
\* invariant: non-empty, at most 255 characters, alphanumeric first
\* character, only alphanumerics, hyphen, underscore and dot after it, no
\* forbidden substring, not reserved, no path separator.
C4_AcceptedNamesSatisfyInvariants ==
    outcome = "Ok"
    => ( /\ input # <<>>
         /\ Len(input) <= MaxNameLength
         /\ MatchesPattern(input)
         /\ ~HasForbidden(input)
         /\ ~IsReserved(input)
         /\ ~HasChar(input, "/")
         /\ ~HasChar(input, "\\") )

\* C5: a string that matches the accepted pattern, has at most 255
\* characters, holds no forbidden substring and is not reserved is accepted
\* by the validator (so rule 6 rejects none of them).
C5_ConformingNamesAreAccepted ==
    ( /\ outcome # "pending"
      /\ MatchesPattern(input)
      /\ Len(input) <= MaxNameLength
      /\ ~HasForbidden(input)
      /\ ~IsReserved(input) )
    => outcome = "Ok"

\* C5, its case: a conforming name of exactly 255 characters was accepted
C5_Witness ==
    /\ outcome = "Ok"
    /\ Len(input) = MaxNameLength
    /\ MatchesPattern(input)

\* C6 as stated: a name that holds ".lock" or ".git" is rejected with
\* ForbiddenPattern.
C6_ForbiddenSubstringIsForbiddenPattern ==
    ( /\ outcome # "pending"
      /\ \/ Contains(input, <<".", "l", "o", "c", "k">>)
         \/ Contains(input, <<".", "g", "i", "t">>) )
    => outcome = "ForbiddenPattern"

\* C6 as amended: a name that holds ".lock" or ".git" is always rejected:
\* with ForbiddenPattern when it matches the accepted pattern and has at
\* most 255 characters (the my.lock style), with InvalidName when it holds
\* a "/" (the repo/.git style), and with one of the two in every case.
C6_ForbiddenSubstringIsRejected ==
    ( /\ outcome # "pending"
      /\ \/ Contains(input, <<".", "l", "o", "c", "k">>)
         \/ Contains(input, <<".", "g", "i", "t">>) )
    => ( /\ outcome \in {"ForbiddenPattern", "InvalidName"}
         /\ (MatchesPattern(input) /\ Len(input) <= MaxNameLength)
            => outcome = "ForbiddenPattern"
         /\ HasChar(input, "/") => outcome = "InvalidName" )

\* C6, its case: a name of the my.lock style was rejected with
\* ForbiddenPattern
C6_Witness ==
    /\ outcome = "ForbiddenPattern"
    /\ MatchesPattern(input)
    /\ Contains(input, <<".", "l", "o", "c", "k">>)
    /\ ~Contains(input, <<".", "g", "i", "t">>)
    /\ ~Contains(input, <<".", ".">>)

\* C7: a tool invocation whose tool name is outside the fixed set fails
\* with UnknownTool, for every argument bag and every base_dir.
C7_UnknownToolIsReported ==
    (req.handler = "call_tool" /\ req.tool \notin ToolNames)
    => (resp.status = "failure" /\ resp.kind = "UnknownTool")

\* C8: a request ends in a failure the caller sees exactly when its handler
\* logged the failure.
C8_FailureIsLoggedAndSurfaced ==
    req.handler # "none" => (resp.status = "failure" <=> ErrorLogged)

\* C9: the listing succeeds and holds exactly one resource git://<name> for
\* each entry of base_dir that is a directory with a .git marker and a name
\* that validates; each such entry whose name does not validate costs a
\* warning and nothing else, wherever the scan meets it.
C9_ListingIsExactlyTheValidRepositories ==
    req.handler = "list_resources"
    => ( /\ resp.status = "success"
         /\ Range(resp.resources) = {Uri(n) : n \in ListedNames}
         /\ Len(resp.resources) = Cardinality(ListedNames)
         /\ Len(log) = Cardinality(SkippedNames)
         /\ \A i \in DOMAIN log : log[i].level = "warning" )

\* C9, its case: the scan met a repository with an invalid name first and a
\* valid one after it, and listed the valid one alone
C9_Witness ==
    /\ req.handler = "list_resources"
    /\ Len(req.order) >= 2
    /\ req.order[1] \in SkippedNames
    /\ req.order[Len(req.order)] = Demo
    /\ resp.resources = <<Uri(Demo)>>

\* C10: every path the server created, and every path built from a
\* caller-supplied name that a request handed to the filesystem or to the
\* engine, is an entry of base_dir itself whose name passes validation; the
\* created ones exist as directories.
C10_PathsStayUnderBaseDir ==
    /\ \A p \in created \cup touched :
          ImmediateChild(p) /\ ValidateRepoName(p[Len(p)]) = "Ok"
    /\ \A p \in created :
          p[Len(p)] \in DOMAIN fs /\ fs[p[Len(p)]].kind = "dir"

\* C10, its case: the server has created a repository and has just refused
\* a request that named the parent directory
C10_Witness ==
    /\ created # {}
    /\ req.handler = "call_tool"
    /\ NamedUnder(req, "repo_name")
    /\ req.name = DotDot
    /\ resp.status = "failure"
    /\ touched = {}

====
